---- MODULE Spec2Model ----
(***************************************************************************)
(* A model of the maze game of js/game.js (class MazeGame: the maze        *)
(* generator and the session state machine) and of the analysis endpoint   *)
(* of backend/server.js (POST /api/analyze/game).                          *)
(*                                                                         *)
(* The browser runs one handler at a time, so in Spec every handler is one *)
(* atomic action; generateMaze, which draws random numbers, is there the   *)
(* operator generateMaze(w, h): the set of all results it can return.      *)
(* SpecGen runs generateMaze alone, its two loops iteration by iteration   *)
(* (pc = "carve", then pc = "exit", then pc = "ready"), with the same      *)
(* Neighbors, CarveTo and PlaceExit.                                       *)
(***************************************************************************)
EXTENDS Integers, Sequences, FiniteSets, TLC

\* ------------------------------------------------------------------ bounds
\* The game always calls generateMaze(15, 15); the model plays on a grid of
\* 2 * MazeHalf + 1 cells a side.
MazeHalf == 2
\* SpecGen calls generateMaze(width, height) for every width, height in
\* 3..MaxDim.
MaxDim == 7
\* Accepted moves per session are capped.
MaxMoves == 4
\* The wall clock runs from 1 s to MaxClock s.
MaxClock == 4
\* reset() calls in a row are counted up to MaxResetsInRow.
MaxResetsInRow == 2
\* How many analysis timers can be waiting at once.
MaxTimers == 1
\* The largest number of moves the efficiency is computed for.
MostMoves == 150
\* How many times initializeGame is called.
MaxRequests == 2

\* ---------------------------------------------------------- program constants
Open == 0
Wall == 1
ExitMark == 2
startX == 1
startY == 1
\* null; the numeric fields that hold it (startTime, lastMoveTime) are only
\* tested for truthiness, and Date.now() is never 0.
Null == 0
MsPerSecond == 1000
HesitationMs == 1000
UiHesitationMs == 2000
AnalysisDelayMs == 2000

VARIABLES
    pc,            \* "carve" | "exit" | "ready": where generateMaze stands
    width, height, \* generateMaze's arguments
    grid,          \* generateMaze's local grid, grid[y][x]
    stack,         \* generateMaze's local stack of <<x, y>>
    exitY,         \* generateMaze's local exitY, the row tried last
    maze,          \* this.maze
    exit,          \* this.exit
    player,        \* this.player
    path,          \* this.path
    moves, decisions, hesitations,
    startTime, lastMoveTime, gameActive,
    metrics,       \* this.metrics
    now,           \* Date.now(), in ms
    hesitating,    \* what the last draw() got from isHesitating()
    emitted,       \* the observations the last handler passed to trackEvent
    moved,         \* for each of them, whether the handler had already
                   \* updated the player's position when it passed it
    completions,   \* how often completeGame computed the final metrics since
                   \* the maze was generated
    resetsInRow,   \* how many reset() calls ran with no other handler between
    gameData,      \* the request body of POST /api/analyze/game
    profile,       \* its answer
    response,      \* "none" | "pending" | "ok" | "notOk" | "thrown": how the
                   \* fetch of analyzeGameResults went
    shown,         \* what analyzeGameResults has put on the analysis page
    gameSession,   \* whether CognitiveApp.gameSession is set (not null)
    delivery,      \* "none" | "dropped" | "pending" | "ok" | "failed": how the
                   \* last call of trackGameEvent went
    thrown,        \* whether a trackEvent call of the last handler threw
    keydown,       \* the keydown event being dispatched to the listeners of
                   \* the document, with the session it met
    timers,        \* the analysis timers completeGame has set and that have
                   \* not fired, each with this.metrics as completeGame left it
    atCompletion,  \* what this.metrics was at the completion whose timer
                   \* fired last
    sessions,      \* the session-start requests: how many were issued, which
                   \* are in flight, whose session gameSession holds, the
                   \* session the event tracked last was sent with, and
                   \* whether the server has refused one (answer not ok)
    served         \* the request the server handled last and its answer

genVars == <<pc, width, height, grid, stack, exitY>>
sessionVars == <<maze, exit, player, path, moves, decisions, hesitations,
                 startTime, lastMoveTime, gameActive, metrics, hesitating,
                 emitted, moved, completions, resetsInRow>>
analysisVars == <<gameData, profile, response, shown>>
telemetryVars == <<gameSession, delivery, thrown>>
pageVars == <<keydown, timers, atCompletion, sessions, served>>
vars == <<genVars, sessionVars, now, analysisVars, telemetryVars, pageVars>>

\* No session-start request was issued, gameSession is null.
NoSessions ==
    [issued |-> 0, pending |-> {}, current |-> Null, tracked |-> Null,
     refused |-> FALSE]

\* The server has handled no request.
NoExchange == [endpoint |-> "none"]

\* No key is being dispatched.
NoKey == [stage |-> "none"]

\* A step that sends no observation to the server.
Quiet == UNCHANGED <<telemetryVars, pageVars>>

\* ------------------------------------------------------------ generateMaze

Pos(x, y) == [x |-> x, y |-> y]
NoPos == Pos(Null, Null)

\* The mutant of WallGrid: the grid is filled with Open cells.
WallGridOpen(w, h) == [row \in 0..(h - 1) |-> [col \in 0..(w - 1) |-> Open]]

\* Array(height).fill().map(() => Array(width).fill(1))
WallGrid(w, h) == [row \in 0..(h - 1) |-> [col \in 0..(w - 1) |-> Wall]]

SetCell(g, x, y, v) == [g EXCEPT ![y][x] = v]

\* The grid and the stack at the first test of the while loop.
StartGrid(w, h) == SetCell(WallGrid(w, h), startX, startY, Open)
StartStack == <<<<startX, startY>>>>

\* Up, Right, Down, Left
CarveDirections == {<<0, -2>>, <<2, 0>>, <<0, 2>>, <<-2, 0>>}

InInterior(w, h, x, y) == x > 0 /\ x < w - 1 /\ y > 0 /\ y < h - 1

IsUnvisited(g, x, y) == g[y][x] = Wall

\* The neighbours two cells away that lie inside the border and are still Wall.
Neighbors(g, w, h, x, y) ==
    { nb \in { [newX |-> x + dir[1], newY |-> y + dir[2], dx |-> dir[1], dy |-> dir[2]] :
               dir \in CarveDirections } :
        InInterior(w, h, nb.newX, nb.newY) /\ IsUnvisited(g, nb.newX, nb.newY) }

\* The mutant of CarveTo: the wall between the two cells is left standing.
CarveToKeepingWall(g, x, y, n) == SetCell(g, n.newX, n.newY, Open)

\* Remove the wall between the current cell and the chosen neighbour.
CarveTo(g, x, y, n) ==
    SetCell(SetCell(g, x + n.dx \div 2, y + n.dy \div 2, Open), n.newX, n.newY, Open)

\* The mutant of MarkExit: the exit cell is left Open.
MarkExitNot(g, x, y) == g

MarkExit(g, x, y) == SetCell(g, x, y, ExitMark)

\* this.metrics as the constructor and reset() set it.
InitMetrics ==
    [moves |-> 0, timeTaken |-> 0, decisions |-> 0, hesitations |-> 0,
     efficiency |-> 0, confidence |-> 100]

\* One iteration of the while loop that finds a neighbour to carve to.
CarveStep ==
    /\ pc = "carve"
    /\ stack # <<>>
    /\ LET top == stack[Len(stack)]
           x == top[1]
           y == top[2]
       IN  /\ Neighbors(grid, width, height, x, y) # {}
           /\ \E n \in Neighbors(grid, width, height, x, y) :
                /\ grid' = CarveTo(grid, x, y, n)
                /\ stack' = Append(stack, <<n.newX, n.newY>>)
    /\ UNCHANGED <<pc, width, height, exitY>>
    /\ UNCHANGED <<sessionVars, now, analysisVars>>

\* One iteration of the while loop that finds no neighbour and pops; the loop
\* ends when the stack is empty.
BacktrackStep ==
    /\ pc = "carve"
    /\ stack # <<>>
    /\ LET top == stack[Len(stack)]
       IN  Neighbors(grid, width, height, top[1], top[2]) = {}
    /\ stack' = SubSeq(stack, 1, Len(stack) - 1)
    /\ pc' = IF Len(stack) = 1 THEN "exit" ELSE "carve"
    /\ UNCHANGED <<width, height, grid, exitY>>
    /\ UNCHANGED <<sessionVars, now, analysisVars>>

\* The rows Math.floor(Math.random() * (height - 2)) + 1 can give.
ExitRows(h) == 1..(h - 2)

\* One iteration of the do-while loop that draws a row whose cell is a Wall.
ExitRetry ==
    /\ pc = "exit"
    /\ \E r \in ExitRows(height) :
         /\ grid[r][width - 2] = Wall
         /\ exitY' = r
    /\ UNCHANGED <<pc, width, height, grid, stack>>
    /\ UNCHANGED <<sessionVars, now, analysisVars>>

\* The mutant of PlaceExit: the exit is marked one column to the left.
PlaceExitOffColumn(g, w, r) == SetCell(MarkExit(g, w - 3, r), startX, startY, Open)

\* generateMaze after its do-while loop has drawn row r: the exit is marked,
\* then the start cell is set Open again.
PlaceExit(g, w, r) == SetCell(MarkExit(g, w - 2, r), startX, startY, Open)

\* The iteration of the do-while loop that draws a row whose cell is not a
\* Wall, and the rest of generateMaze.
ExitFound ==
    /\ pc = "exit"
    /\ \E r \in ExitRows(height) :
         /\ grid[r][width - 2] # Wall
         /\ exitY' = r
         /\ exit' = Pos(width - 2, r)
         /\ grid' = PlaceExit(grid, width, r)
    /\ maze' = grid'
    /\ player' = Pos(startX, startY)
    /\ path' = <<<<startX, startY>>>>
    /\ pc' = "ready"
    /\ UNCHANGED <<width, height, stack>>
    /\ UNCHANGED <<moves, decisions, hesitations, startTime, lastMoveTime,
                   gameActive, metrics, hesitating, emitted, moved, completions,
                   resetsInRow>>
    /\ UNCHANGED <<now, analysisVars>>

GenNext ==
    \/ CarveStep /\ Quiet
    \/ BacktrackStep /\ Quiet
    \/ ExitRetry /\ Quiet
    \/ ExitFound /\ Quiet

\* No request sent, no answer received.
NoAnalysis == [success |-> FALSE]

\* The analysis page before anything is written to it.
NoDisplay == [kind |-> "none"]

\* The page around the game at rest: no event under way.
PageIdle ==
    /\ keydown = NoKey
    /\ timers = <<>>
    /\ atCompletion = InitMetrics
    /\ sessions = NoSessions
    /\ served = NoExchange

\* The fields the constructor sets before it calls generateMaze.
Constructed ==
    /\ moves = 0
    /\ decisions = 0
    /\ hesitations = 0
    /\ startTime = Null
    /\ gameActive = FALSE
    /\ lastMoveTime = Null
    /\ metrics = InitMetrics
    /\ hesitating = FALSE
    /\ emitted = <<>>
    /\ moved = <<>>
    /\ completions = 0
    /\ resetsInRow = 0
    /\ now = MsPerSecond
    /\ gameData = NoAnalysis
    /\ profile = NoAnalysis
    /\ response = "none"
    /\ shown = NoDisplay
    /\ gameSession = FALSE
    /\ delivery = "none"
    /\ thrown = FALSE
    /\ PageIdle

\* generateMaze(w, h) at its first loop test, for every pair of dimensions.
InitGen ==
    /\ \E w \in 3..MaxDim, h \in 3..MaxDim :
         /\ width = w
         /\ height = h
         /\ grid = StartGrid(w, h)
    /\ pc = "carve"
    /\ stack = StartStack
    /\ exitY = Null
    /\ maze = <<>>
    /\ exit = NoPos
    /\ player = Pos(1, 1)
    /\ path = <<>>
    /\ Constructed

SpecGen == InitGen /\ [][GenNext]_vars

\* The grids the while loop of generateMaze can leave, from grid g and stack st
\* on: one for every sequence of random neighbour choices.
RECURSIVE CarvedGrids(_, _, _, _)
CarvedGrids(g, w, h, st) ==
    IF st = <<>>
    THEN {g}
    ELSE LET top == st[Len(st)]
             neighbors == Neighbors(g, w, h, top[1], top[2])
         IN  IF neighbors # {}
             THEN UNION { CarvedGrids(CarveTo(g, top[1], top[2], chosen), w, h,
                                      Append(st, <<chosen.newX, chosen.newY>>)) :
                          chosen \in neighbors }
             ELSE CarvedGrids(g, w, h, SubSeq(st, 1, Len(st) - 1))

\* The grids the while loop can leave from the start grid.  (The start grid
\* is bound by \in so that TLC holds it as an explicit function.)
CarvedMazes(w, h) ==
    UNION { CarvedGrids(start, w, h, StartStack) : start \in {StartGrid(w, h)} }

\* Every result generateMaze(w, h) can return, with the this.exit it sets: one
\* for every carved grid and every row of it that ends the do-while loop.
generateMaze(w, h) ==
    { [grid |-> PlaceExit(found[1], w, found[2]), exit |-> Pos(w - 2, found[2])] :
      found \in { drawn \in CarvedMazes(w, h) \X ExitRows(h) :
                  drawn[1][drawn[2]][w - 2] # Wall } }

\* SpecGen's loops return what the operator generateMaze holds.
GenAgrees ==
    pc = "ready" => [grid |-> maze, exit |-> exit] \in generateMaze(width, height)

\* ------------------------------------------------------------ the session

MazeDim == 2 * MazeHalf + 1

Directions == {"up", "down", "left", "right"}

Dx(direction) == IF direction = "left" THEN -1 ELSE IF direction = "right" THEN 1 ELSE 0
Dy(direction) == IF direction = "up" THEN -1 ELSE IF direction = "down" THEN 1 ELSE 0

Min(a, b) == IF a < b THEN a ELSE b
Max(a, b) == IF a > b THEN a ELSE b

\* Math.round(n / d) for d > 0: the nearest integer, a half rounded up.
Round(n, d) == (2 * n + d) \div (2 * d)

\* Math.floor(n / d) for d > 0.
Floor(n, d) == n \div d

\* The mutant of isValidMove: the test of the cell is left out.
isValidMoveThroughWalls(m, x, y) ==
    x >= 0 /\ x < Cardinality(DOMAIN m[0]) /\ y >= 0 /\ y < Cardinality(DOMAIN m)

isValidMove(m, x, y) ==
    /\ x >= 0 /\ x < Cardinality(DOMAIN m[0])
    /\ y >= 0 /\ y < Cardinality(DOMAIN m)
    /\ m[y][x] # Wall

\* The mutant of isHesitating: the active flag is not looked at.
isHesitatingIdle(lmt, t, active) == lmt # Null /\ t - lmt > UiHesitationMs

isHesitating(lmt, t, active) ==
    IF lmt = Null THEN FALSE ELSE (t - lmt > UiHesitationMs /\ active)

\* The efficiency completeGame stores in this.metrics.
sessionEfficiency(m) == Min(100, Round((100 - m) * 100, 150))

\* The confidence completeGame stores in this.metrics.
sessionConfidence(h) == Max(0, 100 - (h * 5))

\* this.metrics after completeGame's "Calculate final metrics".
FinalMetrics(old, m, t, d, h) ==
    [old EXCEPT !.moves = m,
                !.timeTaken = t,
                !.decisions = d,
                !.efficiency = sessionEfficiency(m),
                !.confidence = sessionConfidence(h)]

\* startGame()
StartGame ==
    /\ pc = "ready"
    /\ IF ~gameActive
       THEN /\ startTime' = now
            /\ gameActive' = TRUE
            /\ lastMoveTime' = now
            /\ emitted' = <<"game_start">>
            /\ moved' = <<FALSE>>
       ELSE /\ UNCHANGED <<startTime, gameActive, lastMoveTime>>
            /\ emitted' = <<>>
            /\ moved' = <<>>
    /\ UNCHANGED <<maze, exit, player, path, moves, decisions, hesitations,
                   metrics, hesitating, completions>>
    /\ resetsInRow' = 0
    /\ UNCHANGED <<genVars, now, analysisVars>>

\* The mutant of MoveRejected: the move is counted although it is refused.
MoveRejectedCounted(direction) ==
    /\ pc = "ready"
    /\ ~isValidMove(maze, player.x + Dx(direction), player.y + Dy(direction))
    /\ moves < MaxMoves
    /\ moves' = moves + 1
    /\ decisions' = decisions + 1
    /\ emitted' = <<"invalid_move">>
    /\ moved' = <<FALSE>>
    /\ UNCHANGED <<maze, exit, player, path, hesitations, startTime, lastMoveTime,
                   gameActive, metrics, hesitating, completions>>
    /\ resetsInRow' = 0
    /\ UNCHANGED <<genVars, now, analysisVars>>

\* move(direction) when isValidMove refuses the target: startGame if the game
\* is not active, then the invalid_move observation.
MoveRejected(direction) ==
    /\ pc = "ready"
    /\ ~isValidMove(maze, player.x + Dx(direction), player.y + Dy(direction))
    /\ IF ~gameActive
       THEN /\ startTime' = now
            /\ gameActive' = TRUE
            /\ lastMoveTime' = now
            /\ emitted' = <<"game_start", "invalid_move">>
            /\ moved' = <<FALSE, FALSE>>
       ELSE /\ UNCHANGED <<startTime, gameActive, lastMoveTime>>
            /\ emitted' = <<"invalid_move">>
            /\ moved' = <<FALSE>>
    /\ UNCHANGED <<maze, exit, player, path, moves, decisions, hesitations,
                   metrics, hesitating, completions>>
    /\ resetsInRow' = 0
    /\ UNCHANGED <<genVars, now, analysisVars>>

\* An observation passed to trackEvent, and whether the player's position had
\* been updated by then.
Observation(type, afterUpdate) == [type |-> type, moved |-> afterUpdate]
Types(obs) == [i \in DOMAIN obs |-> obs[i].type]
Flags(obs) == [i \in DOMAIN obs |-> obs[i].moved]

\* The mutant of moveObservations: the hesitation is reported after the move.
moveObservationsLate(starts, hesitates, completes) ==
    (IF starts THEN <<Observation("game_start", FALSE)>> ELSE <<>>)
    \o <<Observation("move", TRUE)>>
    \o (IF hesitates THEN <<Observation("hesitation", TRUE)>> ELSE <<>>)
    \o (IF completes THEN <<Observation("game_complete", TRUE)>> ELSE <<>>)

\* The trackEvent calls of an accepted move, in the order of the code:
\* startGame's, the hesitation's, then the position is updated, the move's,
\* and completeGame's.
moveObservations(starts, hesitates, completes) ==
    (IF starts THEN <<Observation("game_start", FALSE)>> ELSE <<>>)
    \o (IF hesitates THEN <<Observation("hesitation", FALSE)>> ELSE <<>>)
    \o <<Observation("move", TRUE)>>
    \o (IF completes THEN <<Observation("game_complete", TRUE)>> ELSE <<>>)

\* The mutant of pushPath: the position is not recorded.
pushPathNever(p, x, y) == p

\* The mutant of pushPath: the position is recorded without the comparison.
pushPathAlways(p, x, y) == Append(p, <<x, y>>)

\* The path after a move to (x, y): the position is recorded only if it is
\* not the last one recorded.
pushPath(p, x, y) ==
    IF Len(p) = 0 \/ p[Len(p)][1] # x \/ p[Len(p)][2] # y
    THEN Append(p, <<x, y>>)
    ELSE p

\* move(direction) when isValidMove accepts the target: startGame if the game
\* is not active, the hesitation, the move, completeGame on the exit, draw.
MoveAccepted(direction) ==
    /\ pc = "ready"
    /\ moves < MaxMoves
    /\ LET newX == player.x + Dx(direction)
           newY == player.y + Dy(direction)
           starts == ~gameActive
           startTime1 == IF starts THEN now ELSE startTime
           lastMoveTime1 == IF starts THEN now ELSE lastMoveTime
           hesitationTime == now - lastMoveTime1
           hesitates == lastMoveTime1 # Null /\ hesitationTime > HesitationMs
           hesitations1 == IF hesitates THEN hesitations + 1 ELSE hesitations
           metrics1 == IF hesitates
                       THEN [metrics EXCEPT !.hesitations = @ + 1]
                       ELSE metrics
           completes == newX = exit.x /\ newY = exit.y
           timeTaken == Floor(now - startTime1, MsPerSecond)
       IN  /\ isValidMove(maze, newX, newY)
           /\ startTime' = startTime1
           /\ hesitations' = hesitations1
           /\ player' = Pos(newX, newY)
           /\ moves' = moves + 1
           /\ decisions' = decisions + 1
           /\ lastMoveTime' = now
           /\ path' = pushPath(path, newX, newY)
           /\ gameActive' = ~completes
           /\ metrics' = IF completes
                         THEN FinalMetrics(metrics1, moves + 1, timeTaken,
                                           decisions + 1, hesitations1)
                         ELSE metrics1
           /\ completions' = IF completes THEN completions + 1 ELSE completions
           /\ emitted' = Types(moveObservations(starts, hesitates, completes))
           /\ moved' = Flags(moveObservations(starts, hesitates, completes))
           /\ hesitating' = isHesitating(now, now, ~completes)
    /\ resetsInRow' = 0
    /\ UNCHANGED <<maze, exit>>
    /\ UNCHANGED <<genVars, now, analysisVars>>

Move(direction) == MoveAccepted(direction) \/ MoveRejected(direction)

\* The mutant of Draw: drawing the player writes to the cell he stands on.
DrawOntoMaze ==
    /\ pc = "ready"
    /\ hesitating' = isHesitating(lastMoveTime, now, gameActive)
    /\ emitted' = <<>>
    /\ moved' = <<>>
    /\ maze' = SetCell(maze, player.x, player.y, Wall)
    /\ UNCHANGED <<exit, player, path, moves, decisions, hesitations,
                   startTime, lastMoveTime, gameActive, metrics, completions>>
    /\ resetsInRow' = 0
    /\ UNCHANGED <<genVars, now, analysisVars>>

\* Whether the name is among the observations obs.
Emits(obs, name) == \E i \in DOMAIN obs : obs[i] = name

\* draw(), as far as the session goes: the hesitation indicator.
Draw ==
    /\ pc = "ready"
    /\ hesitating' = isHesitating(lastMoveTime, now, gameActive)
    /\ emitted' = <<>>
    /\ moved' = <<>>
    /\ UNCHANGED <<maze, exit, player, path, moves, decisions, hesitations,
                   startTime, lastMoveTime, gameActive, metrics, completions>>
    /\ resetsInRow' = 0
    /\ UNCHANGED <<genVars, now, analysisVars>>

\* The mazes the game plays on.
GeneratedMazes == generateMaze(MazeDim, MazeDim)

\* What generateMaze(15, 15) leaves when it returns m, its locals included.
Generated(m) ==
    /\ maze' = m.grid
    /\ exit' = m.exit
    /\ player' = Pos(startX, startY)
    /\ path' = <<<<startX, startY>>>>
    /\ pc' = "ready"
    /\ width' = MazeDim
    /\ height' = MazeDim
    /\ grid' = m.grid
    /\ stack' = <<>>
    /\ exitY' = m.exit.y

\* The mutant of Reset: the hesitation counters survive the reset.
ResetKeepingHesitations ==
    /\ pc = "ready"
    /\ \E m \in GeneratedMazes : Generated(m)
    /\ moves' = 0
    /\ decisions' = 0
    /\ startTime' = Null
    /\ gameActive' = FALSE
    /\ lastMoveTime' = Null
    /\ hesitating' = isHesitating(Null, now, FALSE)
    /\ emitted' = <<"game_reset">>
    /\ moved' = <<FALSE>>
    /\ completions' = 0
    /\ resetsInRow' = Min(resetsInRow + 1, MaxResetsInRow)
    /\ UNCHANGED <<hesitations, metrics, now, analysisVars>>

\* The mutant of Reset: the decisions counted so far are kept.
ResetKeepingDecisions ==
    /\ pc = "ready"
    /\ \E m \in GeneratedMazes : Generated(m)
    /\ moves' = 0
    /\ decisions' = decisions
    /\ hesitations' = 0
    /\ startTime' = Null
    /\ gameActive' = FALSE
    /\ lastMoveTime' = Null
    /\ metrics' = InitMetrics
    /\ hesitating' = isHesitating(Null, now, FALSE)
    /\ emitted' = <<"game_reset">>
    /\ moved' = <<FALSE>>
    /\ completions' = 0
    /\ resetsInRow' = Min(resetsInRow + 1, MaxResetsInRow)
    /\ UNCHANGED <<now, analysisVars>>

\* reset()
Reset ==
    /\ pc = "ready"
    /\ \E m \in GeneratedMazes : Generated(m)
    /\ moves' = 0
    /\ decisions' = 0
    /\ hesitations' = 0
    /\ startTime' = Null
    /\ gameActive' = FALSE
    /\ lastMoveTime' = Null
    /\ metrics' = InitMetrics
    /\ hesitating' = isHesitating(Null, now, FALSE)
    /\ emitted' = <<"game_reset">>
    /\ moved' = <<FALSE>>
    /\ completions' = 0
    /\ resetsInRow' = Min(resetsInRow + 1, MaxResetsInRow)
    /\ UNCHANGED <<now, analysisVars>>

\* A second passes between two handlers.
Tick ==
    /\ pc = "ready"
    /\ now < MaxClock * MsPerSecond
    /\ now' = now + MsPerSecond
    /\ UNCHANGED <<genVars, sessionVars, analysisVars>>

\* new MazeGame(canvasId)
Init ==
    /\ \E m \in GeneratedMazes :
         /\ maze = m.grid
         /\ exit = m.exit
         /\ grid = m.grid
         /\ exitY = m.exit.y
    /\ player = Pos(startX, startY)
    /\ path = <<<<startX, startY>>>>
    /\ pc = "ready"
    /\ width = MazeDim
    /\ height = MazeDim
    /\ stack = <<>>
    /\ Constructed

Next ==
    \/ StartGame /\ Quiet
    \/ \E direction \in Directions : Move(direction) /\ Quiet
    \/ Draw /\ Quiet
    \/ Reset /\ Quiet
    \/ Tick /\ Quiet

Spec == Init /\ [][Next]_vars

\* ------------------------------------------------- trackEvent (telemetry)

\* How the fetch of /api/events/track can go, seen from the handler that
\* started it: not settled yet, settled, or rejected.
FetchOutcomes == {"pending", "ok", "failed"}

\* The mutant of trackGameEvent: the rejection of the fetch is not caught and
\* reaches the handler that called trackEvent.
trackGameEventUncaught(session, outcome) ==
    IF ~session
    THEN [delivery |-> "dropped", thrown |-> FALSE]
    ELSE [delivery |-> outcome, thrown |-> outcome = "failed"]

\* trackEvent(eventType, data) and the trackGameEvent(eventType, data) it
\* calls: both are async and not awaited, the fetch is inside try/catch.
trackGameEvent(session, outcome) ==
    IF ~session
    THEN [delivery |-> "dropped", thrown |-> FALSE]
    ELSE [delivery |-> outcome, thrown |-> FALSE]

\* The trackEvent calls of the handler that has just run.
Track ==
    /\ gameSession' = gameSession
    /\ UNCHANGED pageVars
    /\ IF emitted' = <<>>
       THEN /\ delivery' = delivery
            /\ thrown' = FALSE
       ELSE \E outcome \in FetchOutcomes :
              /\ delivery' = trackGameEvent(gameSession, outcome).delivery
              /\ thrown' = trackGameEvent(gameSession, outcome).thrown

\* The pending fetch of trackGameEvent settles, or is rejected and caught.
TrackSettles ==
    /\ delivery = "pending"
    /\ \E outcome \in {"ok", "failed"} :
         /\ delivery' = trackGameEvent(gameSession, outcome).delivery
         /\ thrown' = trackGameEvent(gameSession, outcome).thrown
    /\ gameSession' = gameSession
    /\ UNCHANGED <<genVars, sessionVars, now, analysisVars, pageVars>>

\* startGameSession(): the server's session when the answer is ok, a local
\* one when the fetch throws, none when the answer is not ok.
StartGameSession ==
    /\ pc = "ready"
    /\ \E answer \in {"ok", "notOk", "thrown"} :
         gameSession' = IF answer = "notOk" THEN gameSession ELSE TRUE
    /\ UNCHANGED <<delivery, thrown>>
    /\ UNCHANGED <<genVars, sessionVars, now, analysisVars, pageVars>>

\* The session with the delivery of its observations.
NextTrack ==
    \/ StartGame /\ Track
    \/ \E direction \in Directions : Move(direction) /\ Track
    \/ Draw /\ Quiet
    \/ Reset /\ Track
    \/ Tick /\ Quiet
    \/ TrackSettles
    \/ StartGameSession

SpecTrack == Init /\ [][NextTrack]_vars

\* ------------------------------------------- keydown (the two listeners)

\* The keys both listeners map to a direction.
KeyMap ==
    [ArrowUp |-> "up", ArrowDown |-> "down", ArrowLeft |-> "left",
     ArrowRight |-> "right", w |-> "up", s |-> "down", a |-> "left", d |-> "right"]

\* A mapped key is pressed while the game section is shown: the listener of
\* MazeGame, registered first, runs move(keyMap[e.key]).
KeyDownGame ==
    /\ keydown.stage \in {"none", "done"}
    /\ moves + 1 < MaxMoves
    /\ \E key \in DOMAIN KeyMap :
         /\ Move(KeyMap[key])
         /\ keydown' = [stage |-> "app", key |-> key,
                        moves |-> moves, player |-> player]
    /\ UNCHANGED <<telemetryVars, timers, atCompletion, sessions, served>>

\* The same event reaches the listener of CognitiveApp, which runs
\* window.mazeGame.move(keyMap[e.key]) as well.
KeyDownApp ==
    /\ keydown.stage = "app"
    /\ Move(KeyMap[keydown.key])
    /\ keydown' = [keydown EXCEPT !.stage = "done"]
    /\ UNCHANGED <<telemetryVars, timers, atCompletion, sessions, served>>

\* A handler other than keydown, between two events.
BetweenKeys(Handler) ==
    /\ keydown.stage \in {"none", "done"}
    /\ Handler
    /\ keydown' = NoKey
    /\ UNCHANGED <<telemetryVars, timers, atCompletion, sessions, served>>

NextKeys ==
    \/ KeyDownGame
    \/ KeyDownApp
    \/ BetweenKeys(Draw)
    \/ BetweenKeys(Reset)
    \/ BetweenKeys(Tick)

SpecKeys == Init /\ [][NextKeys]_vars

\* ------------------------------------ the analysis timer of completeGame

\* What a handler does to the timers: completeGame, when it has run, sets
\* one that will call analyzeGameResults(this.metrics). The session is
\* followed until the first analysis is requested.
SetsTimer ==
    /\ response = "none"
    /\ Emits(emitted', "game_complete") => Len(timers) < MaxTimers
    /\ timers' = IF Emits(emitted', "game_complete")
                 THEN Append(timers, [due |-> now + AnalysisDelayMs,
                                      metrics |-> metrics'])
                 ELSE timers
    /\ UNCHANGED <<telemetryVars, keydown, atCompletion, sessions, served>>

\* What the timer's callback passes to analyzeGameResults: this.metrics, read
\* when the timer fires.
timerArgument(current, captured) == current

\* The oldest timer fires: analyzeGameResults posts the metrics it is given.
TimerFires ==
    /\ pc = "ready"
    /\ timers # <<>>
    /\ now >= Head(timers).due
    /\ gameData' = timerArgument(metrics, Head(timers).metrics)
    /\ response' = "pending"
    /\ atCompletion' = Head(timers).metrics
    /\ timers' = Tail(timers)
    /\ UNCHANGED <<profile, shown>>
    /\ UNCHANGED <<genVars, sessionVars, now, telemetryVars, keydown, sessions, served>>

\* The handlers that write the metrics, time, and the timer.
NextTimer ==
    \/ \E direction \in Directions : Move(direction) /\ SetsTimer
    \/ Reset /\ SetsTimer
    \/ Tick /\ SetsTimer
    \/ TimerFires

SpecTimer == Init /\ [][NextTimer]_vars

\* --------------------------------- initializeGame and startGameSession

\* initializeGame(): window.mazeGame.reset(), then startGameSession() up to
\* its await: one more request is in flight.
InitializeGame ==
    /\ sessions.issued < MaxRequests
    /\ Reset
    /\ sessions' = [sessions EXCEPT !.issued = @ + 1,
                                    !.pending = @ \cup {sessions.issued + 1},
                                    !.tracked = Null]
    /\ UNCHANGED <<telemetryVars, keydown, timers, atCompletion, served>>

\* startGameSession() after its await, for any request in flight: the
\* server's session when the answer is ok, a local one when the fetch threw,
\* nothing when the answer is not ok.
SessionAnswered ==
    /\ \E r \in sessions.pending, answer \in {"ok", "notOk", "thrown"} :
         /\ sessions' = [sessions EXCEPT
                           !.pending = @ \ {r},
                           !.current = IF answer = "notOk" THEN @ ELSE r,
                           !.refused = @ \/ answer = "notOk"]
         /\ gameSession' = IF answer = "notOk" THEN gameSession ELSE TRUE
    /\ UNCHANGED <<delivery, thrown, keydown, timers, atCompletion, served>>
    /\ UNCHANGED <<genVars, sessionVars, now, analysisVars>>

\* A handler of the game after initializeGame: trackGameEvent sends its
\* observations with gameSession.sessionId, if there is a gameSession.
TrackedWithSession(Handler) ==
    /\ sessions.issued > 0
    /\ Handler
    /\ sessions' = [sessions EXCEPT
                      !.tracked = IF emitted' # <<>> /\ gameSession
                                  THEN sessions.current ELSE @]
    /\ UNCHANGED <<telemetryVars, keydown, timers, atCompletion, served>>

NextSessions ==
    \/ InitializeGame
    \/ SessionAnswered
    \/ TrackedWithSession(\E direction \in Directions : Move(direction))
    \/ TrackedWithSession(Tick)

SpecSessions == Init /\ [][NextSessions]_vars

\* ------------------------------------------- POST /api/analyze/game (server)

getArchetypeName(type) ==
    CASE type = "strategist" -> "The Strategist"
      [] type = "explorer" -> "The Explorer"
      [] type = "intuitive" -> "The Intuitive"
      [] type = "analytical" -> "The Analytical"
      [] type = "balanced" -> "The Balanced Thinker"
      [] OTHER -> "The Thinker"

\* hesitations || 0, decisions || moves * 2: the numbers a request can carry
\* are falsy only when 0.
\* The mutant of moveEfficiency: the score is taken out of 100 moves, not 150.
moveEfficiencyOutOf100(req) == Min(100, Round((100 - req.moves) * 100, 100))

moveEfficiency(req) == Min(100, Round((100 - req.moves) * 100, 150))
timeEfficiency(req) == Min(100, Round((300 - req.timeTaken) * 100, 300))
decisionConfidence(req) == Min(100, Round(100 - req.hesitations, 1))

archetype(req) ==
    IF moveEfficiency(req) > 80 /\ timeEfficiency(req) > 80 THEN "strategist"
    ELSE IF moveEfficiency(req) < 60 /\ req.decisions > 30 THEN "explorer"
    ELSE IF timeEfficiency(req) > 90 THEN "intuitive"
    ELSE IF decisionConfidence(req) < 70 THEN "analytical"
    ELSE "balanced"

biases(req) ==
    (IF req.moves > 50 THEN <<"analysis_paralysis">> ELSE <<>>)
    \o (IF req.hesitations > 10 THEN <<"decision_anxiety">> ELSE <<>>)
    \o (IF req.timeTaken < 30 /\ req.moves > 40 THEN <<"impulsivity">> ELSE <<>>)

overallScore(req) ==
    Round(moveEfficiency(req) + timeEfficiency(req) + decisionConfidence(req), 3)

\* The cognitiveProfile the handler answers with.
cognitiveProfile(req) ==
    [success |-> TRUE,
     sessionId |-> req.sessionId,
     archetype |-> [type |-> archetype(req),
                    name |-> getArchetypeName(archetype(req)),
                    confidence |-> overallScore(req)],
     metrics |-> [moves |-> req.moves,
                  timeTaken |-> req.timeTaken,
                  decisions |-> IF req.decisions # 0 THEN req.decisions
                                ELSE req.moves * 2,
                  moveEfficiency |-> moveEfficiency(req),
                  timeEfficiency |-> timeEfficiency(req),
                  decisionConfidence |-> decisionConfidence(req),
                  overallScore |-> overallScore(req)],
     biases |-> biases(req)]

\* ---------------------------------- CognitiveAPI (client-side API wrapper)

\* generateLocalAnalysis(gameData).profile: what analyzeGame answers with when
\* the request fails.
generateLocalAnalysis(req) ==
    LET efficiency == Min(100, Round((100 - req.moves) * 100, 150))
        timeScore == Min(100, Round((300 - req.timeTaken) * 100, 300))
        localScore == Round(efficiency + timeScore, 2)
        type == IF efficiency > 80 /\ timeScore > 80 THEN "strategist"
                ELSE IF req.moves > 50 THEN "explorer"
                ELSE IF req.timeTaken < 30 THEN "intuitive"
                ELSE "balanced"
        name == IF type = "strategist" THEN "The Strategist"
                ELSE IF type = "explorer" THEN "The Explorer"
                ELSE IF type = "intuitive" THEN "The Intuitive"
                ELSE "The Balanced Thinker"
    IN  [success |-> TRUE,
         archetype |-> [type |-> type, name |-> name, confidence |-> localScore],
         metrics |-> [moves |-> req.moves,
                      timeTaken |-> req.timeTaken,
                      decisions |-> req.moves * 2,
                      moveEfficiency |-> efficiency,
                      timeEfficiency |-> timeScore,
                      decisionConfidence |-> 85,
                      overallScore |-> localScore],
         biases |-> IF req.moves > 60 THEN <<"analysis_paralysis">> ELSE <<>>]

\* ------------------------------- CognitiveAnalysis (client-side utilities)

\* detectBiases(gameData): the types of the biases it returns, in order.
detectBiases(req) ==
    (IF req.moves > 60 THEN <<"analysis_paralysis">> ELSE <<>>)
    \o (IF req.timeTaken < 30 /\ req.moves > 40 THEN <<"impulsivity">> ELSE <<>>)
    \o (IF req.moves < 30 /\ req.timeTaken > 120 THEN <<"perfectionism">> ELSE <<>>)
    \o (IF req.decisions > 50 /\ req.hesitations < 5
        THEN <<"confirmation_bias">> ELSE <<>>)

\* Three times speedScore = Math.max(0, 100 - timeTaken / 3), which is an
\* integer; speedScore > 85 is speedScore3 > 255.
speedScore3(t) == Max(0, 300 - t)

\* determineArchetype(metrics): the type it returns and Math.round(totalScore).
determineArchetype(m) ==
    LET efficiencyScore == m.efficiency
        confidenceScore == m.confidence
        type == IF efficiencyScore > 85 /\ speedScore3(m.timeTaken) > 3 * 85
                THEN "strategist"
                ELSE IF efficiencyScore < 60 /\ m.moves > 40 THEN "explorer"
                ELSE IF speedScore3(m.timeTaken) > 3 * 90 THEN "intuitive"
                ELSE IF confidenceScore < 70 THEN "analytical"
                ELSE "balanced"
    IN  [type |-> type,
         confidence |-> Round(speedScore3(m.timeTaken) + 3 * efficiencyScore
                              + 3 * confidenceScore, 9)]

\* The counters a finished game can report.
MovesRange == {0, 20, 29, 30, 31, 41, 51, 61, 100, 101, 150}
TimeRange == {0, 29, 30, 45, 121, 300, 330}
HesitationsRange == {0, 1, 4, 5, 6, 7, 11, 25, 31}
DecisionsRange == {0, 20, 31, 51}

Request(m, t, h, d) ==
    [sessionId |-> "session_1", moves |-> m, timeTaken |-> t, hesitations |-> h,
     decisions |-> d]

\* The handler of POST /api/analyze/game on the request gameData: the answer
\* is on its way to the page.
AnalyzeGame ==
    /\ gameData # NoAnalysis
    /\ profile = NoAnalysis
    /\ response = "pending"
    /\ profile' = cognitiveProfile(gameData)
    /\ UNCHANGED <<genVars, sessionVars, now, gameData, response, shown>>

\* displayAnalysis(profile), as far as the result goes.
displayAnalysis(p) ==
    [kind |-> "analysis", archetype |-> p.archetype.name,
     overall |-> p.metrics.overallScore]

\* displayFallbackAnalysis(gameData)
displayFallbackAnalysis(req) ==
    LET efficiency == Min(100, Round((100 - req.moves) * 100, 150))
        timeScore == Min(100, Round((300 - req.timeTaken) * 100, 300))
    IN  [kind |-> "fallback", efficiency |-> efficiency,
         overall |-> Round(efficiency + timeScore, 2)]

\* analyzeGameResults after its await, response.ok: the profile is displayed.
AnalysisOk ==
    /\ response = "pending"
    /\ profile # NoAnalysis
    /\ response' = "ok"
    /\ shown' = displayAnalysis(profile)
    /\ UNCHANGED <<genVars, sessionVars, now, gameData, profile>>

\* analyzeGameResults after its await, a response that is not ok (the server's
\* 400 or 500, or any other status): the if is skipped, the function returns.
AnalysisNotOk ==
    /\ response = "pending"
    /\ profile = NoAnalysis
    /\ response' = "notOk"
    /\ UNCHANGED <<genVars, sessionVars, now, gameData, profile, shown>>

\* analyzeGameResults when fetch rejects: the catch block.
AnalysisThrows ==
    /\ response = "pending"
    /\ profile = NoAnalysis
    /\ response' = "thrown"
    /\ shown' = displayFallbackAnalysis(gameData)
    /\ UNCHANGED <<genVars, sessionVars, now, gameData, profile>>

\* completeGame's "Calculate final metrics" for a game that ends with the
\* counters of gameData.
CalculateFinalMetrics ==
    /\ gameData # NoAnalysis
    /\ metrics = InitMetrics
    /\ metrics' = FinalMetrics([InitMetrics EXCEPT !.hesitations = gameData.hesitations],
                               gameData.moves, gameData.timeTaken,
                               gameData.decisions, gameData.hesitations)
    /\ UNCHANGED <<genVars, maze, exit, player, path, moves, decisions, hesitations,
                   startTime, lastMoveTime, gameActive, hesitating, emitted, moved,
                   completions, resetsInRow>>
    /\ UNCHANGED <<now, analysisVars>>

\* The classifier on its own: every request, no game on the page.
InitClassify ==
    /\ \E m \in MovesRange, t \in TimeRange, h \in HesitationsRange, d \in DecisionsRange :
         gameData = Request(m, t, h, d)
    /\ profile = NoAnalysis
    /\ response = "pending"
    /\ shown = NoDisplay
    /\ pc = "ready"
    /\ width = MazeDim
    /\ height = MazeDim
    /\ grid = <<>>
    /\ stack = <<>>
    /\ exitY = Null
    /\ maze = <<>>
    /\ exit = NoPos
    /\ player = Pos(1, 1)
    /\ path = <<>>
    /\ moves = 0
    /\ decisions = 0
    /\ hesitations = 0
    /\ startTime = Null
    /\ gameActive = FALSE
    /\ lastMoveTime = Null
    /\ metrics = InitMetrics
    /\ hesitating = FALSE
    /\ emitted = <<>>
    /\ moved = <<>>
    /\ completions = 0
    /\ resetsInRow = 0
    /\ now = MsPerSecond
    /\ gameSession = FALSE
    /\ delivery = "none"
    /\ thrown = FALSE
    /\ PageIdle

NextClassify ==
    \/ AnalyzeGame /\ Quiet
    \/ AnalysisOk /\ Quiet
    \/ AnalysisNotOk /\ Quiet
    \/ AnalysisThrows /\ Quiet
    \/ CalculateFinalMetrics /\ Quiet

SpecClassify == InitClassify /\ [][NextClassify]_vars

\* ------------------------------------- the server's two POST endpoints

\* A field the request body does not have (undefined after destructuring),
\* and the empty string: the values of the model for which !field is true.
Missing == "<undefined>"
Falsy(v) == v \in {Missing, ""}

\* The event field of an answer that echoes no event.
NoEvent == [processed |-> FALSE]

\* The mutant of postEventsTrack: the required fields are not checked.
postEventsTrackUnchecked(body) ==
    [status |-> 200, success |-> TRUE,
     event |-> [sessionId |-> body.sessionId, eventType |-> body.eventType,
                processed |-> TRUE]]

\* POST /api/events/track
postEventsTrack(body) ==
    IF Falsy(body.sessionId) \/ Falsy(body.eventType)
    THEN [status |-> 400, success |-> FALSE, event |-> NoEvent]
    ELSE [status |-> 200, success |-> TRUE,
          event |-> [sessionId |-> body.sessionId, eventType |-> body.eventType,
                     processed |-> TRUE]]

\* POST /api/analyze/game
postAnalyzeGame(body) ==
    IF Falsy(body.sessionId)
    THEN [status |-> 400, success |-> FALSE, profile |-> NoAnalysis]
    ELSE [status |-> 200, success |-> TRUE, profile |-> cognitiveProfile(body)]

\* The session ids and event types the requests are sent with: missing,
\* empty, and values the server has or has not seen.
SessionIds == {Missing, "", "session_1", "no_such_session"}
EventTypes == {Missing, "", "game_start", "move", "hesitation"}

PostEventsTrack ==
    /\ \E id \in SessionIds, type \in EventTypes :
         LET body == [sessionId |-> id, eventType |-> type]
         IN  served' = [endpoint |-> "/api/events/track", body |-> body,
                        answer |-> postEventsTrack(body)]
    /\ UNCHANGED <<genVars, sessionVars, now, analysisVars, telemetryVars,
                   keydown, timers, atCompletion, sessions>>

PostAnalyzeGame ==
    /\ \E id \in SessionIds, m \in {0, 51}, t \in {0, 45}, h \in {0, 11},
          d \in {0, 31} :
         LET body == [Request(m, t, h, d) EXCEPT !.sessionId = id]
         IN  served' = [endpoint |-> "/api/analyze/game", body |-> body,
                        answer |-> postAnalyzeGame(body)]
    /\ UNCHANGED <<genVars, sessionVars, now, analysisVars, telemetryVars,
                   keydown, timers, atCompletion, sessions>>

NextServer == PostEventsTrack \/ PostAnalyzeGame

SpecServer == Init /\ [][NextServer]_vars

\* ------------------------------------------------------------------ claims

\* The cell move(direction) aims at, and whether it is a Wall or off the grid.
TargetOf(direction) == Pos(player.x + Dx(direction), player.y + Dy(direction))
TargetBlocked(direction) ==
    \/ TargetOf(direction).x \notin 0..(width - 1)
    \/ TargetOf(direction).y \notin 0..(height - 1)
    \/ maze[TargetOf(direction).y][TargetOf(direction).x] = Wall

\* The cells of grid m, as <<x, y>>, that are not Wall, and those marked Exit.
Cells(w, h) == { <<x, y>> : x \in 0..(w - 1), y \in 0..(h - 1) }
OpenCells(m, w, h) == { cell \in Cells(w, h) : m[cell[2]][cell[1]] # Wall }
ExitCells(m, w, h) == { cell \in Cells(w, h) : m[cell[2]][cell[1]] = ExitMark }

Adjacent(a, b) ==
    \/ a[1] = b[1] /\ (a[2] = b[2] + 1 \/ b[2] = a[2] + 1)
    \/ a[2] = b[2] /\ (a[1] = b[1] + 1 \/ b[1] = a[1] + 1)

\* The cells of `cells` that a walk from one of `from` reaches.
RECURSIVE Region(_, _)
Region(from, cells) ==
    LET grown == { c : c \in from \cup { near \in cells :
                                          \E f \in from : Adjacent(near, f) } }
    IN  IF grown = from THEN from ELSE Region(grown, cells)

\* The pairs of open cells that touch, each counted once.
AdjacentPairs(cells) ==
    Cardinality({ left \in cells : <<left[1] + 1, left[2]>> \in cells })
    + Cardinality({ upper \in cells : <<upper[1], upper[2] + 1>> \in cells })

OddFromFive(n) == n >= 5 /\ n % 2 = 1

\* C1: once the session has completed, a move(direction) changes neither the
\* player position, moves, decisions, hesitations, path, startTime nor the
\* active flag.
C1_MoveAfterCompleteIsNoOp ==
    [][(completions > 0 /\ \E d \in Directions : Move(d))
       => UNCHANGED <<player, moves, decisions, hesitations, path, startTime,
                      gameActive>>]_vars

\* C2: between two resets completeGame computes the final metrics, and emits
\* game_complete, at most once.
C2_CompletesAtMostOnce == completions <= 1

\* C3: a move whose target cell is a Wall or off the grid leaves the player
\* position, moves, decisions and path unchanged.
C3_BlockedMoveChangesNothing ==
    [][\A d \in Directions :
         (TargetBlocked(d) /\ Move(d))
         => (player' = player /\ moves' = moves /\ decisions' = decisions
             /\ path' = path)]_vars

\* A move has just been refused in a game that has accepted moves before.
C3_Witness ==
    /\ moves > 0
    /\ emitted # <<>>
    /\ emitted[Len(emitted)] = "invalid_move"
    /\ \E d \in Directions : TargetBlocked(d)

\* C4: in every maze generateMaze returns for odd width and height >= 5 the
\* cells that are not Wall form one 4-connected region, which holds the start
\* cell (1,1) and the exit cell.
C4_OneOpenRegion ==
    (pc = "ready" /\ OddFromFive(width) /\ OddFromFive(height))
    => /\ <<startX, startY>> \in OpenCells(maze, width, height)
       /\ Region({<<startX, startY>>}, OpenCells(maze, width, height))
          = OpenCells(maze, width, height)
       /\ <<exit.x, exit.y>> \in OpenCells(maze, width, height)

\* generateMaze(7, 7) has returned a maze whose exit column holds a Wall.
C4_Witness ==
    /\ pc = "ready"
    /\ width = 7
    /\ height = 7
    /\ \E r \in ExitRows(height) : maze[r][width - 2] = Wall

\* C5: every maze generateMaze returns for odd width and height >= 5 is
\* acyclic: the pairs of touching open cells number the open cells minus one.
C5_PerfectMaze ==
    (pc = "ready" /\ OddFromFive(width) /\ OddFromFive(height))
    => AdjacentPairs(OpenCells(maze, width, height))
       = Cardinality(OpenCells(maze, width, height)) - 1

\* generateMaze(5, 7) has returned: 6 cells carved and the 5 walls between.
C5_Witness ==
    /\ pc = "ready"
    /\ width = 5
    /\ height = 7
    /\ Cardinality(OpenCells(maze, width, height)) = 11

\* C6: after construction and after every reset() the grid holds exactly one
\* cell marked Exit, the one this.exit records.
C6_OneExitCell == ExitCells(maze, width, height) = {<<exit.x, exit.y>>}

\* reset() has just returned, with its new maze.
C6_Witness ==
    /\ emitted = <<"game_reset">>
    /\ maze[exit.y][exit.x] = ExitMark

\* C7: for every width and height >= 3 the exit search of generateMaze can
\* end: column width-2 holds a cell that is not Wall when the search starts.
C7_ExitSearchEnds ==
    pc = "exit" => \E r \in ExitRows(height) : grid[r][width - 2] # Wall

\* C8: within a session moves and decisions never decrease; only an accepted
\* move changes them, by exactly one each; startGame, draw, a rejected move
\* and the passing of time leave them unchanged.
C8_CountersMonotone ==
    [][\/ moves' = moves /\ decisions' = decisions
       \/ /\ moves' = moves + 1
          /\ decisions' = decisions + 1
          /\ \E d \in Directions :
               ~TargetBlocked(d) /\ player' = TargetOf(d) /\ Move(d)
       \/ Reset]_vars

\* Moves have been accepted and the last one was refused.
C8_Witness ==
    /\ moves >= 2
    /\ decisions >= 2
    /\ emitted = <<"invalid_move">>

\* C9: for moves=20, timeTaken=45, hesitations=1, decisions=20 the analysis
\* answers efficiency 53, timeEfficiency 85, confidence 95, overallScore 78,
\* archetype Balanced Thinker and no bias.
C9_ReferenceProfile ==
    (gameData = Request(20, 45, 1, 20) /\ profile # NoAnalysis)
    => /\ profile.metrics.moveEfficiency = 53
       /\ profile.metrics.timeEfficiency = 85
       /\ profile.metrics.decisionConfidence = 95
       /\ profile.metrics.overallScore = 78
       /\ profile.archetype.name = "The Balanced Thinker"
       /\ profile.biases = <<>>

\* C10: the efficiency lies in 0..100 for every moves >= 0, in the final
\* session metrics and in the analysis profile.
C10_EfficiencyInRange ==
    /\ metrics.efficiency \in 0..100
    /\ profile # NoAnalysis => profile.metrics.moveEfficiency \in 0..100

\* The confidence the specification's table gives for h hesitations.
TableConfidence(h) == Max(0, Min(100, 100 - 5 * h))

\* C11: for every hesitations >= 0 the confidence is max(0, min(100, 100 - 5 *
\* hesitations)), in the session's final metrics and in the decisionConfidence
\* of the analysis profile.
C11_ConfidenceFormula ==
    /\ metrics # InitMetrics
       => metrics.confidence = TableConfidence(metrics.hesitations)
    /\ profile # NoAnalysis
       => profile.metrics.decisionConfidence = TableConfidence(gameData.hesitations)

\* The half of C11 that the session keeps: its final metrics follow the table.
C11_SessionConfidence ==
    metrics # InitMetrics => metrics.confidence = TableConfidence(metrics.hesitations)

\* The session as the constructor leaves it: Idle, at the start, nothing counted.
FreshSession ==
    /\ player = Pos(1, 1)
    /\ path = <<<<1, 1>>>>
    /\ moves = 0
    /\ decisions = 0
    /\ hesitations = 0
    /\ startTime = Null
    /\ lastMoveTime = Null
    /\ gameActive = FALSE
    /\ metrics = [moves |-> 0, timeTaken |-> 0, decisions |-> 0, hesitations |-> 0,
                  efficiency |-> 0, confidence |-> 100]

\* Grid m with exit e is one open region holding the start and the exit, with
\* no cycle.
ValidMaze(m, e, w, h) ==
    /\ <<1, 1>> \in OpenCells(m, w, h)
    /\ <<e.x, e.y>> \in OpenCells(m, w, h)
    /\ Region({<<1, 1>>}, OpenCells(m, w, h)) = OpenCells(m, w, h)
    /\ AdjacentPairs(OpenCells(m, w, h)) = Cardinality(OpenCells(m, w, h)) - 1

\* C12: reset() from any state leaves the session Idle: player at (1,1), path
\* [(1,1)], counters 0, timestamps null, gameActive false, metrics initial, and
\* a maze that generateMaze returned.
C12_ResetLeavesIdle ==
    emitted = <<"game_reset">>
    => /\ FreshSession
       /\ [grid |-> maze, exit |-> exit] \in GeneratedMazes

\* reset() has returned after time has passed since construction.
C12_Witness ==
    /\ emitted = <<"game_reset">>
    /\ resetsInRow = 1
    /\ now > MsPerSecond

\* C13: after each of two reset() calls in a row the session is fresh and its
\* maze is one open region without cycles holding start and exit; the fields
\* after the second call are those after the first.
C13_ResetTwice ==
    resetsInRow >= 1
    => /\ FreshSession
       /\ ValidMaze(maze, exit, width, height)

\* reset() has returned twice in a row.
C13_Witness ==
    /\ resetsInRow = 2
    /\ emitted = <<"game_reset">>
    /\ FreshSession

\* The session has completed and was not started again.
Complete == completions > 0 /\ ~gameActive

\* C14: startGame() called when the session is already Active or already
\* Complete leaves startTime, lastMoveTime and the lifecycle state unchanged
\* and emits no game_start.
C14_StartGameIdempotent ==
    [][((gameActive \/ Complete) /\ StartGame)
       => /\ UNCHANGED <<startTime, lastMoveTime, gameActive>>
          /\ emitted' # <<"game_start">>]_vars

\* The half of C14 that holds: startGame() on an Active session changes nothing.
C14_StartGameWhenActive ==
    [][(gameActive /\ StartGame)
       => /\ UNCHANGED <<startTime, lastMoveTime, gameActive>>
          /\ emitted' # <<"game_start">>]_vars

\* C15: a rejected move changes no state: one attempted while the session is
\* Idle leaves it Idle, with startTime and lastMoveTime unset.
C15_RejectedMoveChangesNothing ==
    [][\A d \in Directions :
         (TargetBlocked(d) /\ Move(d))
         => UNCHANGED <<maze, exit, player, path, moves, decisions, hesitations,
                        startTime, lastMoveTime, gameActive, metrics>>]_vars

\* C16: an accepted move adds one to hesitations exactly when an accepted move
\* came before it in the session and more than 1000 ms have passed since that
\* move; the first accepted move never counts, however late it comes.
C16_HesitationIff ==
    [][(moves' = moves + 1)
       => hesitations' = hesitations
                         + (IF moves > 0 /\ now - lastMoveTime > 1000 THEN 1 ELSE 0)]_vars

\* C17: isHesitating() is true exactly when the session is Active and more
\* than 2000 ms have passed since lastMoveTime, and evaluating it, directly or
\* through draw(), changes no session field.
C17_IsHesitatingReadOnly ==
    [][Draw
       => /\ hesitating' = (gameActive /\ now - lastMoveTime > 2000)
          /\ isHesitating(lastMoveTime, now, gameActive) = hesitating'
          /\ UNCHANGED <<maze, exit, player, path, moves, decisions, hesitations,
                         startTime, lastMoveTime, gameActive, metrics>>]_vars

\* draw() has shown the hesitation indicator on an Active session.
C17_Witness ==
    /\ hesitating
    /\ gameActive
    /\ emitted = <<>>
    /\ now - lastMoveTime > 2000

\* The archetype the specification's priority list gives: the first rule that
\* matches, for efficiency e, time efficiency t, confidence c and "the move
\* count is above its threshold" many.
RuleArchetype(e, t, c, many) ==
    IF e > 80 /\ t > 80 THEN "strategist"
    ELSE IF e < 60 /\ many THEN "explorer"
    ELSE IF t > 90 THEN "intuitive"
    ELSE IF c < 70 THEN "analytical"
    ELSE "balanced"

\* C18: for every input the archetype is the first rule that matches in the
\* order Strategist (efficiency > 80 and timeEfficiency > 80), Explorer
\* (efficiency < 60 and the move count above its threshold), Intuitive
\* (timeEfficiency > 90), Analytical (confidence < 70), else Balanced Thinker;
\* in the server's profile and in determineArchetype.
C18_ArchetypeFirstMatch ==
    /\ profile # NoAnalysis
       => profile.archetype.type
          = RuleArchetype(profile.metrics.moveEfficiency,
                          profile.metrics.timeEfficiency,
                          profile.metrics.decisionConfidence, gameData.moves > 30)
    /\ metrics # InitMetrics
       => determineArchetype(metrics).type
          = RuleArchetype(metrics.efficiency,
                          Round((300 - metrics.timeTaken) * 100, 300),
                          metrics.confidence, metrics.moves > 40)

\* What the server does keep of C18: the order, with Explorer decided by the
\* decisions of the request.
C18_ServerOrder ==
    profile # NoAnalysis
    => profile.archetype.type
       = RuleArchetype(profile.metrics.moveEfficiency,
                       profile.metrics.timeEfficiency,
                       profile.metrics.decisionConfidence, gameData.decisions > 30)

\* Bias b is in the list bs.
HasBias(bs, b) == \E i \in DOMAIN bs : bs[i] = b

\* C19: the bias list of a profile holds a bias exactly when its condition
\* holds: analysis_paralysis (moves > 50), decision_anxiety (hesitations > 10),
\* impulsivity (timeTaken < 30 and moves > 40), perfectionism (moves < 30 and
\* timeTaken > 120), confirmation_bias (decisions > 50 and hesitations < 5).
C19_BiasTable ==
    profile # NoAnalysis
    => /\ HasBias(profile.biases, "analysis_paralysis") <=> gameData.moves > 50
       /\ HasBias(profile.biases, "decision_anxiety") <=> gameData.hesitations > 10
       /\ HasBias(profile.biases, "impulsivity")
          <=> (gameData.timeTaken < 30 /\ gameData.moves > 40)
       /\ HasBias(profile.biases, "perfectionism")
          <=> (gameData.moves < 30 /\ gameData.timeTaken > 120)
       /\ HasBias(profile.biases, "confirmation_bias")
          <=> (gameData.decisions > 50 /\ gameData.hesitations < 5)

\* What the server does keep of C19: its three biases follow the table.
C19_ServerBiases ==
    profile # NoAnalysis
    => /\ HasBias(profile.biases, "analysis_paralysis") <=> gameData.moves > 50
       /\ HasBias(profile.biases, "decision_anxiety") <=> gameData.hesitations > 10
       /\ HasBias(profile.biases, "impulsivity")
          <=> (gameData.timeTaken < 30 /\ gameData.moves > 40)

\* What detectBiases keeps of C19: every bias but decision_anxiety follows the
\* table, analysis_paralysis with the threshold 60.
C19_DetectBiases ==
    gameData # NoAnalysis
    => /\ HasBias(detectBiases(gameData), "analysis_paralysis") <=> gameData.moves > 60
       /\ ~HasBias(detectBiases(gameData), "decision_anxiety")
       /\ HasBias(detectBiases(gameData), "impulsivity")
          <=> (gameData.timeTaken < 30 /\ gameData.moves > 40)
       /\ HasBias(detectBiases(gameData), "perfectionism")
          <=> (gameData.moves < 30 /\ gameData.timeTaken > 120)
       /\ HasBias(detectBiases(gameData), "confirmation_bias")
          <=> (gameData.decisions > 50 /\ gameData.hesitations < 5)

\* C20: however the analysis request fails after a completed game, by a
\* rejected fetch or by a response that is not ok, analyzeGameResults shows a
\* locally computed analysis: no failure leaves the page without a result.
C20_FallbackOnEveryFailure ==
    response \in {"notOk", "thrown"} => shown.kind = "fallback"

\* The half of C20 that holds: a rejected fetch shows the fallback analysis.
C20_FallbackWhenFetchThrows ==
    response = "thrown" => shown = displayFallbackAnalysis(gameData)

\* The biases of the list bs, as a set.
BiasSet(bs) == { bs[i] : i \in DOMAIN bs }

\* C21: for every (moves, timeTaken, hesitations, decisions) the local
\* fallback analysis returns the archetype, moveEfficiency, timeEfficiency,
\* decisionConfidence, overallScore and bias set of the server's analysis.
C21_LocalAnalysisAgrees ==
    profile # NoAnalysis
    => LET local == generateLocalAnalysis(gameData)
       IN  /\ local.archetype.type = profile.archetype.type
           /\ local.metrics.moveEfficiency = profile.metrics.moveEfficiency
           /\ local.metrics.timeEfficiency = profile.metrics.timeEfficiency
           /\ local.metrics.decisionConfidence = profile.metrics.decisionConfidence
           /\ local.metrics.overallScore = profile.metrics.overallScore
           /\ BiasSet(local.biases) = BiasSet(profile.biases)

\* What the two analyses do share: the two efficiencies.
C21_LocalEfficienciesAgree ==
    profile # NoAnalysis
    => LET local == generateLocalAnalysis(gameData)
       IN  /\ local.metrics.moveEfficiency = profile.metrics.moveEfficiency
           /\ local.metrics.timeEfficiency = profile.metrics.timeEfficiency

\* A handler of the session, whatever becomes of its observations.
SessionStep ==
    \/ StartGame
    \/ \E direction \in Directions : Move(direction)
    \/ Draw
    \/ Reset
    \/ Tick

\* C22: whether the delivery of an observation succeeds, fails, is dropped
\* for want of a game session or stays pending, every step is a step of the
\* session without telemetry (or leaves the session alone), and no exception
\* reaches the handler.
C22_TelemetryCannotAffectSession ==
    [][/\ SessionStep \/ UNCHANGED <<genVars, sessionVars, now, analysisVars>>
       /\ ~thrown']_vars

\* A move was accepted and counted although its observation was not delivered.
C22_Witness ==
    /\ delivery \in {"failed", "dropped"}
    /\ emitted # <<>>
    /\ emitted[Len(emitted)] = "move"
    /\ moves > 0
    /\ gameActive

\* What the control buttons can hand to move(): data-direction of the button,
\* undefined when the attribute is missing.
AnyDirections == Directions \cup {"undefined"}

\* The session when move() is also called with no valid direction.
NextAnyDirection ==
    \/ StartGame /\ Quiet
    \/ \E direction \in AnyDirections : Move(direction) /\ Quiet
    \/ Draw /\ Quiet
    \/ Reset /\ Quiet
    \/ Tick /\ Quiet

SpecAnyDirection == Init /\ [][NextAnyDirection]_vars

\* C23: move() with a direction that is none of up, down, left, right changes
\* neither moves, decisions, hesitations, lastMoveTime nor the lifecycle, and
\* completes nothing.
C23_UnknownDirectionChangesNothing ==
    [][Move("undefined")
       => UNCHANGED <<moves, decisions, hesitations, lastMoveTime, startTime,
                      gameActive, completions, metrics>>]_vars

\* What does hold: move() with an unknown direction leaves the player where
\* he is and adds nothing to the path.
C23_UnknownDirectionKeepsPosition ==
    [][Move("undefined") => UNCHANGED <<player, path>>]_vars

\* The dimensions of a grid g[y][x].
GridHeight(g) == Cardinality(DOMAIN g)
GridWidth(g) == Cardinality(DOMAIN g[0])

\* C24: generateMaze called with width and height of at least 5, even or odd,
\* returns a grid whose width and height are odd, with the start cell and the
\* exit on it.
C24_DimensionsForcedOdd ==
    pc = "ready" /\ width >= 5 /\ height >= 5
    => /\ GridWidth(maze) % 2 = 1
       /\ GridHeight(maze) % 2 = 1
       /\ startX < GridWidth(maze) /\ startY < GridHeight(maze)
       /\ exit.x \in 0..(GridWidth(maze) - 1)
       /\ exit.y \in 0..(GridHeight(maze) - 1)

\* What does hold: the grid returned has the dimensions asked for, and the
\* start cell and the exit are on it.
C24_DimensionsAsAsked ==
    pc = "ready" /\ width >= 5 /\ height >= 5
    => /\ GridWidth(maze) = width
       /\ GridHeight(maze) = height
       /\ startX < GridWidth(maze) /\ startY < GridHeight(maze)
       /\ exit.x \in 0..(GridWidth(maze) - 1)
       /\ exit.y \in 0..(GridHeight(maze) - 1)

\* Whether (x, y) is a cell of the grid m.
OnGrid(m, x, y) == x \in 0..(GridWidth(m) - 1) /\ y \in 0..(GridHeight(m) - 1)

\* C25: in every reachable state the player stands on a cell of the grid
\* that is not a Wall.
C25_PlayerOnOpenCell ==
    /\ OnGrid(maze, player.x, player.y)
    /\ maze[player.y][player.x] # Wall

\* The player has moved off the start cell and stands next to a wall.
C25_Witness ==
    /\ moves > 0
    /\ player # Pos(startX, startY)
    /\ \E direction \in Directions : TargetBlocked(direction)

\* Whether the sequence p is the beginning of the sequence q.
IsPrefix(p, q) == Len(p) <= Len(q) /\ SubSeq(q, 1, Len(p)) = p

\* C26: every handler but reset keeps the recorded path as a prefix of the
\* new one and adds at most one entry, a rejected move adds none, and no two
\* consecutive entries of the path are the same cell.
C26_PathAppendOnly ==
    [][/\ ~Emits(emitted', "game_reset")
          => IsPrefix(path, path') /\ Len(path') <= Len(path) + 1
       /\ Emits(emitted', "invalid_move") => path' = path
       /\ \A i \in 1..(Len(path') - 1) : path'[i] # path'[i + 1]]_vars

\* Some accepted move has added no entry to a path of several cells: the
\* player moved onto the cell recorded last.
C26_Witness ==
    /\ Len(path) >= 3
    /\ moves >= Len(path)
    /\ Emits(emitted, "move")

\* C27: between two handlers, a player standing on the exit cell means the
\* session is Complete; it is never Active with the player on the exit.
C27_OnExitMeansComplete ==
    (player.x = exit.x /\ player.y = exit.y) => Complete

\* What does hold: the player reaches the exit only by a move that completes
\* the game, so a player on the exit has completed at least once.
C27_OnExitHasCompleted ==
    (player.x = exit.x /\ player.y = exit.y) => completions > 0

\* C28: the efficiency is anchored at both ends: a session of 100 moves
\* scores 0 and one of 0 moves scores 100, in the final metrics of the
\* session and in the profile of the analysis.
C28_EfficiencyAnchored ==
    /\ metrics # InitMetrics /\ gameData.moves = 100 => metrics.efficiency = 0
    /\ metrics # InitMetrics /\ gameData.moves = 0 => metrics.efficiency = 100
    /\ profile # NoAnalysis /\ gameData.moves = 100
       => profile.metrics.moveEfficiency = 0
    /\ profile # NoAnalysis /\ gameData.moves = 0
       => profile.metrics.moveEfficiency = 100

\* What does hold: 100 moves score 0, and 0 moves score 67.
C28_EfficiencyAtTheEnds ==
    /\ metrics # InitMetrics /\ gameData.moves = 100 => metrics.efficiency = 0
    /\ metrics # InitMetrics /\ gameData.moves = 0 => metrics.efficiency = 67
    /\ profile # NoAnalysis /\ gameData.moves = 100
       => profile.metrics.moveEfficiency = 0
    /\ profile # NoAnalysis /\ gameData.moves = 0
       => profile.metrics.moveEfficiency = 67

\* Whether obs holds the observation a somewhere before the observation b.
Before(obs, a, b) ==
    \A i, j \in DOMAIN obs : obs[i] = a /\ obs[j] = b => i < j

\* C29: the observations of one accepted move come in a fixed order: the
\* hesitation, if any, before the position is updated and before the move
\* observation, game_complete after the move observation, and game_start
\* before any move observation of the session.
C29_MoveObservationOrder ==
    Emits(emitted, "move")
    => /\ Before(emitted, "hesitation", "move")
       /\ \A i \in DOMAIN emitted : emitted[i] = "hesitation" => ~moved[i]
       /\ \A i \in DOMAIN emitted : emitted[i] = "move" => moved[i]
       /\ Before(emitted, "move", "game_complete")
       /\ Before(emitted, "game_start", "move")
       /\ startTime # Null

\* An accepted move after a hesitation reached the exit.
C29_Witness == emitted = <<"hesitation", "move", "game_complete">>

\* The cells of the grid g that are still Wall.
WallCells(g, w, h) == { cell \in Cells(w, h) : g[cell[2]][cell[1]] = Wall }

\* What every pass of the carving loop makes smaller: a carve turns two walls
\* open and pushes one cell, a backtrack pops one.
CarveMeasure == Cardinality(WallCells(grid, width, height)) + Len(stack)

\* The interior cells with odd x and odd y.
OddInterior(w, h) ==
    { cell \in Cells(w, h) : /\ InInterior(w, h, cell[1], cell[2])
                             /\ cell[1] % 2 = 1 /\ cell[2] % 2 = 1 }

\* C30: the carving loop ends whatever the random choices are (every pass
\* lowers a measure that is never negative), and once the stack is empty every
\* interior cell with odd x and odd y is Open, so that column width - 2 of a
\* grid of odd width and height holds an open cell among the rows the exit
\* search tries.
C30_CarvingEndsFullyCarved ==
    /\ [][pc = "carve" => CarveMeasure' < CarveMeasure]_vars
    /\ [](pc = "exit"
          => /\ stack = <<>>
             /\ \A cell \in OddInterior(width, height) :
                  grid[cell[2]][cell[1]] = Open
             /\ (width % 2 = 1 /\ height % 2 = 1)
                => \E r \in ExitRows(height) : grid[r][width - 2] = Open)

\* The carving of a 7 x 7 grid has ended and the exit search begins.
C30_Witness ==
    /\ pc = "exit"
    /\ exitY = Null
    /\ width = MaxDim /\ height = MaxDim
    /\ stack = <<>>

\* C31: in every reachable state decisions equals moves.
C31_DecisionsEqualMoves == decisions = moves

\* Several moves were accepted, and a move into a wall was refused after them.
C31_Witness ==
    /\ moves >= 2
    /\ decisions >= 2
    /\ emitted = <<"invalid_move">>

\* C32: the maze is immutable during a session: no handler but reset (move,
\* startGame, completeGame, draw with its isHesitating) changes a cell of
\* maze or the exit position.
C32_MazeImmutable ==
    [][~Emits(emitted', "game_reset") => UNCHANGED <<maze, exit>>]_vars

\* A session was started, saw a hesitation and was completed on the exit the
\* maze was generated with.
C32_Witness ==
    /\ completions > 0
    /\ hesitations > 0
    /\ player = exit
    /\ maze[exit.y][exit.x] = ExitMark

\* How many cells apart two positions are.
Abs(n) == IF n < 0 THEN -n ELSE n
Distance(p, q) == Abs(p.x - q.x) + Abs(p.y - q.y)

\* C33: one press of a mapped key applies one move: when both keydown
\* listeners have run, moves has grown by at most one and the player has
\* advanced by at most one cell.
C33_OneMovePerKeyPress ==
    keydown.stage = "done"
    => /\ moves <= keydown.moves + 1
       /\ Distance(player, keydown.player) <= 1

\* What does hold: one press applies at most two moves.
C33_TwoMovesPerKeyPress ==
    keydown.stage = "done"
    => /\ moves <= keydown.moves + 2
       /\ Distance(player, keydown.player) <= 2

\* C34: the metrics the analysis timer passes to analyzeGameResults are those
\* of the completion that set the timer: whatever reset or move ran in
\* between, the analysed moves, timeTaken, decisions and hesitations are the
\* values at the moment of completion.
C34_TimerSendsCompletionMetrics ==
    response = "pending"
    => /\ gameData.moves = atCompletion.moves
       /\ gameData.timeTaken = atCompletion.timeTaken
       /\ gameData.decisions = atCompletion.decisions
       /\ gameData.hesitations = atCompletion.hesitations

\* C35: with the four directions, in every reachable state the path has
\* moves + 1 entries, its last entry is the player's position, its first is
\* (1,1), and two consecutive entries are one cell apart along one axis.
C35_PathTracksPlayer ==
    /\ Len(path) = moves + 1
    /\ path[Len(path)] = <<player.x, player.y>>
    /\ path[1] = <<startX, startY>>
    /\ \A i \in 1..(Len(path) - 1) :
         Abs(path[i][1] - path[i + 1][1]) + Abs(path[i][2] - path[i + 1][2]) = 1

\* The player went to a neighbouring cell and back: the path holds the start
\* cell twice.
C35_Witness ==
    /\ Len(path) >= 3
    /\ path[3] = path[1]
    /\ moves = Len(path) - 1

\* C36: for every moves >= 0 the efficiency is at most 67, so that neither
\* the server's analysis nor generateLocalAnalysis ever answers Strategist.
C36_StrategistNeverReturned ==
    profile # NoAnalysis /\ gameData.moves >= 0
    => /\ \A m \in 0..MostMoves : moveEfficiency([moves |-> m]) <= 67
       /\ profile.metrics.moveEfficiency <= 67
       /\ generateLocalAnalysis(gameData).metrics.moveEfficiency <= 67
       /\ profile.archetype.type # "strategist"
       /\ generateLocalAnalysis(gameData).archetype.type # "strategist"

\* The most favourable request was analysed: no move, no time, no hesitation.
C36_Witness ==
    /\ profile # NoAnalysis
    /\ gameData.moves = 0
    /\ gameData.timeTaken = 0
    /\ gameData.hesitations = 0
    /\ profile.metrics.timeEfficiency > 80
    /\ profile.metrics.moveEfficiency = 67

\* C37: when initializeGame ran several times and every session-start
\* request got a session (none was refused), then once all are answered
\* gameSession is the session of the request issued last, whatever the order
\* of the answers; and an event tracked after an initializeGame carries the
\* sessionId of that request, never that of an earlier one.
C37_LatestSessionWins ==
    ~sessions.refused
    => /\ sessions.issued > 0 /\ sessions.pending = {}
          => sessions.current = sessions.issued
       /\ sessions.tracked # Null => sessions.tracked = sessions.issued

\* What does hold: once all requests are answered and none was refused,
\* gameSession holds the session of one of them.
C37_SomeSessionWins ==
    sessions.issued > 0 /\ sessions.pending = {} /\ ~sessions.refused
    => gameSession /\ sessions.current \in 1..sessions.issued

\* C38: in every reachable state hesitations <= moves, hesitations equals
\* metrics.hesitations, and while the session is Active startTime and
\* lastMoveTime are set with startTime <= lastMoveTime.
C38_HesitationsAndTimes ==
    /\ hesitations <= moves
    /\ hesitations = metrics.hesitations
    /\ gameActive
       => startTime # Null /\ lastMoveTime # Null /\ startTime <= lastMoveTime

\* An Active session with as many hesitations as moves: the game was
\* started, and the one move made since came after a hesitation.
C38_Witness ==
    /\ gameActive
    /\ moves >= 1
    /\ hesitations = moves
    /\ startTime < lastMoveTime

\* C39 as stated: a request without sessionId (or, for events, without
\* eventType) is answered 400 with no event and no profile, and a request that
\* has the required fields is answered 200 whatever their value.
C39_RejectsIncomplete ==
    /\ served.endpoint = "/api/events/track"
       => IF served.body.sessionId = Missing \/ served.body.eventType = Missing
          THEN served.answer.status = 400 /\ served.answer.event = NoEvent
          ELSE served.answer.status = 200
    /\ served.endpoint = "/api/analyze/game"
       => IF served.body.sessionId = Missing
          THEN served.answer.status = 400 /\ served.answer.profile = NoAnalysis
          ELSE served.answer.status = 200

\* C39, amended: a request whose sessionId (or, for events, eventType) is
\* missing or empty is answered 400 with no event and no profile; a request
\* whose required fields are not empty is answered 200 with the event or the
\* profile, whether the server knows the sessionId or not.
C39_RejectsMissingOrEmpty ==
    /\ served.endpoint = "/api/events/track"
       => IF Falsy(served.body.sessionId) \/ Falsy(served.body.eventType)
          THEN served.answer.status = 400 /\ served.answer.event = NoEvent
          ELSE /\ served.answer.status = 200
               /\ served.answer.event.sessionId = served.body.sessionId
               /\ served.answer.event.eventType = served.body.eventType
    /\ served.endpoint = "/api/analyze/game"
       => IF Falsy(served.body.sessionId)
          THEN served.answer.status = 400 /\ served.answer.profile = NoAnalysis
          ELSE /\ served.answer.status = 200
               /\ served.answer.profile = cognitiveProfile(served.body)

\* An analysis was asked for with an empty sessionId and refused.
C39_Witness ==
    /\ served.endpoint = "/api/analyze/game"
    /\ served.body.sessionId = ""
    /\ served.answer.status = 400

====
